---------------------------- MODULE Spec2Model ----------------------------
(***************************************************************************)
(* bitcalc (src/bitcalc/bitcalc.py): Lexer, Parser (shunting yard),        *)
(* expression evaluation, BinaryFormatter width, and the read loop that    *)
(* drives Parser.parse.                                                    *)
(*                                                                         *)
(* Text is a sequence of one-character strings.  Indices into text are     *)
(* 0-based as in the source; TLA+ sequences are 1-based, so the character  *)
(* at source index i is e[i + 1].                                          *)
(***************************************************************************)
EXTENDS Integers, Sequences, FiniteSets, TLC

VARIABLES
    lexExpr,      \* Lexer._expr
    lexIndex,     \* Lexer._index
    lexTokens,    \* Lexer._tokens (the list Parser.parse hands to _parse_expr)
    expr,         \* the local name expr of Parser._parse_expr (rebound at line 407)
    pos,          \* position of the for loop of _parse_expr in tokens (1-based)
    tree,         \* the operand stack of _parse_expr
    stack,        \* the operator stack of _parse_expr
    parserTree,   \* Parser._tree
    parserResult, \* Parser._result
    pc,           \* "idle" | "lex" | "parse": where the current parse call is
    raised,       \* exception class that ended the last parse call, or "none"
    errExpr,      \* ParserError.expr of that exception
    errMsg,       \* ParserError.message of that exception (its kind)
    running,      \* start_repl is still in its loop
    vals,         \* BinaryFormatter._vals
    digits,       \* BinaryFormatter._digits
    negative      \* BinaryFormatter._negative

vars == <<lexExpr, lexIndex, lexTokens, expr, pos, tree, stack, parserTree,
          parserResult, pc, raised, errExpr, errMsg, running, vals, digits,
          negative>>

lexVars == <<lexExpr, lexIndex, lexTokens>>
loopVars == <<expr, pos, tree, stack>>
parserVars == <<parserTree, parserResult>>
fmtVars == <<vals, digits, negative>>

\* Python's None, as a value of a field or a local.
None == [kind |-> "None"]

\* A str object and an int object held by a field or a local.
Str(s) == [kind |-> "str", value |-> s]
PyInt(n) == [kind |-> "int", val |-> n]

\* None as Lexer._next returns it, comparable with characters.
NoChar == "None"

(***************************************************************************)
(* Lexer                                                                   *)
(***************************************************************************)

INTEGERS == {"0", "1", "2", "3", "4", "5", "6", "7", "8", "9"}

OpChars == {"&", "|", "^", "~", "+", "-", "*", "/", "(", ")", "%"}

OPERATORS(c) ==
    CASE c = "&" -> "BitwiseAnd"
      [] c = "|" -> "BitwiseOr"
      [] c = "^" -> "BitwiseXOr"
      [] c = "~" -> "BitwiseNot"
      [] c = "+" -> "Plus"
      [] c = "-" -> "Minus"
      [] c = "*" -> "Times"
      [] c = "/" -> "Divide"
      [] c = "(" -> "LeftParen"
      [] c = ")" -> "RightParen"
      [] c = "%" -> "Modulo"

Whitespace == {" ", "\t"}

\* Lexer._actions: the handler the lex loop dispatches to for character c.
Actions(c) ==
    IF c \in INTEGERS \cup {"-"} THEN "_lex_int"
    ELSE IF c \in {"<", ">"} THEN "_lex_shifters"
    ELSE IF c \in OpChars THEN "_lex_operators"
    ELSE IF c \in Whitespace THEN "_advance"
    ELSE "KeyError"

Token(value, type) == [value |-> value, type |-> type]

Current(e, i) == e[i + 1]

NextChar(e, i) == IF i + 1 < Len(e) THEN e[i + 2] ELSE NoChar

\* The loop of lines 143-145: consume '-' characters from index i on.  The
\* loop is entered only with a digit after the first '-', so it ends on that
\* digit; the bound on i only keeps the operator total.
RECURSIVE SkipDashes(_, _)
SkipDashes(e, i) ==
    IF i < Len(e) /\ Current(e, i) = "-" THEN SkipDashes(e, i + 1) ELSE i

\* The loop of lines 147-150: consume digits from index i on.
RECURSIVE SkipDigits(_, _)
SkipDigits(e, i) ==
    IF i < Len(e) /\ Current(e, i) \in INTEGERS THEN SkipDigits(e, i + 1) ELSE i

\* What a handler hands back: the token (or None), the new index, and the
\* exception it raised ("none" when it returned).
LexOut(tok, i, exc) == [tok |-> tok, index |-> i, exc |-> exc]

LexOperatorsOut(e, i) ==
    IF Current(e, i) \in OpChars
    THEN LexOut(Token(<<Current(e, i)>>, OPERATORS(Current(e, i))), i + 1, "none")
    ELSE LexOut(None, i, "ParserError")

\* LexIntOut with every '-' lexed as the Minus operator.
LexIntOutMinusAlways(e, i) ==
    IF Current(e, i) = "-" THEN LexOperatorsOut(e, i)
    ELSE LET k == SkipDigits(e, i)
         IN LexOut(Token(SubSeq(e, i + 1, k), "Integer"), k, "none")

\* LexIntOut with the sign left out of the lexeme.
LexIntOutDropSign(e, i) ==
    IF Current(e, i) = "-" /\ NextChar(e, i) \notin INTEGERS
    THEN LexOperatorsOut(e, i)
    ELSE LET j == IF Current(e, i) = "-" THEN SkipDashes(e, i) ELSE i
             k == SkipDigits(e, j)
         IN LexOut(Token(SubSeq(e, j + 1, k), "Integer"), k, "none")

LexIntOut(e, i) ==
    IF Current(e, i) = "-" /\ NextChar(e, i) \notin INTEGERS
    THEN LexOperatorsOut(e, i)
    ELSE LET j == IF Current(e, i) = "-" THEN SkipDashes(e, i) ELSE i
             k == SkipDigits(e, j)
         IN LexOut(Token(SubSeq(e, i + 1, k), "Integer"), k, "none")

LexShiftersOut(e, i) ==
    IF Current(e, i) = ">" /\ NextChar(e, i) = ">"
    THEN LexOut(Token(<<">", ">">>, "RightShift"), i + 2, "none")
    ELSE IF Current(e, i) = "<" /\ NextChar(e, i) = "<"
    THEN LexOut(Token(<<"<", "<">>, "LeftShift"), i + 2, "none")
    ELSE LexOut(None, i, "ParserError")

(***************************************************************************)
(* Expressions and their evaluation                                        *)
(***************************************************************************)

DigitValue(c) ==
    CASE c = "0" -> 0 [] c = "1" -> 1 [] c = "2" -> 2 [] c = "3" -> 3
      [] c = "4" -> 4 [] c = "5" -> 5 [] c = "6" -> 6 [] c = "7" -> 7
      [] c = "8" -> 8 [] c = "9" -> 9

\* int() of a run of digits.
RECURSIVE DigitsValue(_)
DigitsValue(s) ==
    IF s = <<>> THEN 0
    ELSE 10 * DigitsValue(SubSeq(s, 1, Len(s) - 1)) + DigitValue(s[Len(s)])

\* Token.__int__ of an Integer token: int(self.value).
TokenInt(tok) ==
    IF tok.value[1] = "-" THEN 0 - DigitsValue(Tail(tok.value))
    ELSE DigitsValue(tok.value)

NumericExpression(tok) == [kind |-> "Numeric", first |-> TokenInt(tok)]

UnaryExpression(first, tok) ==
    [kind |-> "Unary", first |-> first, op |-> tok.value]

BinaryExpression(first, tok, second) ==
    [kind |-> "Binary", first |-> first, op |-> tok.value, second |-> second]

\* What an evaluation step yields: an int, a float (true division), or an
\* exception.
Returned(v) == [exc |-> "none", float |-> FALSE, val |-> v]
ReturnedFloat == [exc |-> "none", float |-> TRUE, val |-> 0]
Raises(x) == [exc |-> x, float |-> FALSE, val |-> 0]

\* Python's bitwise operators on unbounded two's-complement integers.
RECURSIVE BitAnd(_, _)
BitAnd(a, b) ==
    IF a = 0 \/ b = 0 THEN 0
    ELSE IF a = -1 THEN b
    ELSE IF b = -1 THEN a
    ELSE 2 * BitAnd(a \div 2, b \div 2) + (a % 2) * (b % 2)

BitNot(a) == 0 - a - 1

BitOr(a, b) == BitNot(BitAnd(BitNot(a), BitNot(b)))

BitXor(a, b) == BitAnd(BitOr(a, b), BitNot(BitAnd(a, b)))

RECURSIVE ShiftLeft(_, _)
ShiftLeft(a, n) == IF n = 0 THEN a ELSE ShiftLeft(2 * a, n - 1)

RECURSIVE ShiftRight(_, _)
ShiftRight(a, n) ==
    IF n = 0 \/ a = 0 \/ a = -1 THEN a ELSE ShiftRight(a \div 2, n - 1)

\* Python's %: the result takes the sign of the divisor.
Modulo(a, b) == IF b > 0 THEN a % b ELSE 0 - ((0 - a) % (0 - b))

BinaryOps == {<<"&">>, <<"|">>, <<"^">>, <<"+">>, <<"-">>, <<"*">>, <<"%">>,
              <<"/">>, <<"<", "<">>, <<">", ">">>}

\* BinaryExpression._val: the dict lookup by self.op, then the call.
BinaryVal(op, e1, e2) ==
    IF op \notin BinaryOps THEN Raises("KeyError")
    ELSE CASE op = <<"&">> -> Returned(BitAnd(e1, e2))
           [] op = <<"|">> -> Returned(BitOr(e1, e2))
           [] op = <<"^">> -> Returned(BitXor(e1, e2))
           [] op = <<"+">> -> Returned(e1 + e2)
           [] op = <<"-">> -> Returned(e1 - e2)
           [] op = <<"*">> -> Returned(e1 * e2)
           [] op = <<"%">> -> IF e2 = 0 THEN Raises("ZeroDivisionError")
                              ELSE Returned(Modulo(e1, e2))
           [] op = <<"/">> -> IF e2 = 0 THEN Raises("ZeroDivisionError")
                              ELSE ReturnedFloat
           [] op = <<"<", "<">> -> IF e2 < 0 THEN Raises("ValueError")
                                   ELSE Returned(ShiftLeft(e1, e2))
           [] op = <<">", ">">> -> IF e2 < 0 THEN Raises("ValueError")
                                   ELSE Returned(ShiftRight(e1, e2))

UnaryOps == {<<"-">>, <<"+">>, <<"~">>}

\* UnaryExpression._val.
UnaryVal(op, e1) ==
    IF op \notin UnaryOps THEN Raises("KeyError")
    ELSE CASE op = <<"-">> -> Returned(-1 * e1)
           [] op = <<"+">> -> Returned(e1)
           [] op = <<"~">> -> Returned(BitNot(e1))

\* The builtin int(x) on what x.__int__() gave: a float is a TypeError.
BuiltinInt(r) == IF r.exc = "none" /\ r.float THEN Raises("TypeError") ELSE r

\* int(e) for an expression e: __int__ of the three Expression classes.
RECURSIVE IntOf(_)
IntOf(e) ==
    CASE e.kind = "Numeric" -> Returned(e.first)
      [] e.kind = "Unary" ->
           LET a == IntOf(e.first)
           IN IF a.exc # "none" THEN a ELSE BuiltinInt(UnaryVal(e.op, a.val))
      [] e.kind = "Binary" ->
           LET a == IntOf(e.first)
           IN IF a.exc # "none" THEN a
              ELSE LET b == IntOf(e.second)
                   IN IF b.exc # "none" THEN b
                      ELSE BuiltinInt(BinaryVal(e.op, a.val, b.val))

(***************************************************************************)
(* Parser helpers                                                          *)
(***************************************************************************)

\* Parser._PRECEDENCE: level i of the source list is PRECEDENCE[i + 1].
PRECEDENCE == <<
    ("BitwiseNot" :> "right"),
    ("Times" :> "left" @@ "Divide" :> "left" @@ "Modulo" :> "left"),
    ("LeftShift" :> "left" @@ "RightShift" :> "left"),
    ("Plus" :> "left" @@ "Minus" :> "left"),
    ("BitwiseAnd" :> "left"),
    ("BitwiseXOr" :> "left"),
    ("BitwiseOr" :> "left") >>

\* Parser._op_precedence: (index of the first level holding op.type, its
\* associativity), or KeyError.
OpPrecedence(op) ==
    LET found == {i \in 1..Len(PRECEDENCE) : op.type \in DOMAIN PRECEDENCE[i]}
    IN IF found = {} THEN [exc |-> "KeyError", prec |-> 0, assoc |-> "none"]
       ELSE LET i == CHOOSE j \in found : \A k \in found : j <= k
            IN [exc |-> "none", prec |-> i - 1, assoc |-> PRECEDENCE[i][op.type]]

\* Parser._should_pop_op.
ShouldPopOp(stk, new) ==
    LET old == stk[Len(stk)]
    IN IF old.type = "LeftParen" THEN [exc |-> "none", pop |-> FALSE]
       ELSE LET o == OpPrecedence(old)
                n == OpPrecedence(new)
            IN IF o.exc # "none" \/ n.exc # "none"
               THEN [exc |-> "KeyError", pop |-> FALSE]
               ELSE IF n.assoc = "left" /\ n.prec >= o.prec
               THEN [exc |-> "none", pop |-> TRUE]
               ELSE IF n.assoc = "right" /\ n.prec > o.prec
               THEN [exc |-> "none", pop |-> TRUE]
               ELSE [exc |-> "none", pop |-> FALSE]

IsUnaryOp(op) == op.type = "BitwiseNot"

Pop(s) == SubSeq(s, 1, Len(s) - 1)

\* Parser._reduce_expr: tree.pop() on an empty list is an IndexError.
ReduceExpr(tr, tok) ==
    IF Len(tr) = 0 THEN [exc |-> "IndexError", tree |-> tr]
    ELSE LET second == tr[Len(tr)]
             rest == Pop(tr)
         IN IF Len(rest) > 0 /\ ~IsUnaryOp(tok)
            THEN [exc |-> "none",
                  tree |-> Append(Pop(rest),
                                  BinaryExpression(rest[Len(rest)], tok, second))]
            ELSE [exc |-> "none",
                  tree |-> Append(rest, UnaryExpression(second, tok))]

\* The while loop of the RightParen branch, lines 413-423.
RECURSIVE CloseParen(_, _)
CloseParen(tr, stk) ==
    IF Len(stk) = 0
    THEN [exc |-> "none", tree |-> tr, stack |-> stk, found |-> FALSE]
    ELSE LET top == stk[Len(stk)]
         IN IF top.type # "LeftParen"
            THEN LET r == ReduceExpr(tr, top)
                 IN IF r.exc # "none"
                    THEN [exc |-> r.exc, tree |-> tr, stack |-> Pop(stk),
                          found |-> FALSE]
                    ELSE CloseParen(r.tree, Pop(stk))
            ELSE [exc |-> "none", tree |-> tr, stack |-> Pop(stk), found |-> TRUE]

\* The while loop after the tokens, lines 436-442.
RECURSIVE Drain(_, _)
Drain(tr, stk) ==
    IF Len(stk) = 0 THEN [exc |-> "none", tree |-> tr, stack |-> stk]
    ELSE LET top == stk[Len(stk)]
         IN IF top.type = "RightParen" \/ top.type = "LeftParen"
            THEN [exc |-> "ParserError", tree |-> tr, stack |-> stk]
            ELSE LET r == ReduceExpr(tr, top)
                 IN IF r.exc # "none"
                    THEN [exc |-> r.exc, tree |-> tr, stack |-> stk]
                    ELSE Drain(r.tree, Pop(stk))

(***************************************************************************)
(* Inputs                                                                  *)
(***************************************************************************)

\* Longest text given to Parser.parse under SpecLex.
MaxLexLen == 4

LexAlphabet == {"1", "2", "-", " ", "<", ">", "(", ")", "x"}

LexExprs == UNION {[1..n -> LexAlphabet] : n \in 0..MaxLexLen}

\* The lines typed at the prompt of start_repl under Spec.
Exprs == {
    <<"3", "+", "4", "*", "2">>,
    <<"(", "3", "+", "4", ")", "*", "2">>,
    <<"~", "5">>,
    <<"8", ">", ">", "2">>,
    <<"-", "5">>,
    <<"1", "-", "2">>,
    <<"1", " ", "-", " ", "2">>,
    <<"(", "3", "+", "4">>,
    <<"3", "+", "4", ")">>,
    <<"1", "0", "/", "4">>,
    <<"7", "%", "0">>,
    <<"1", "<", "<", "-", "1">>,
    <<"1", "&", "2", "+", "3", "|", "4">>,
    <<"9", "-", " ", "2", "*", "3", "-", " ", "4">>,
    <<"2", "*", "3", "+", "4", "^", "1">>,
    <<"+", ")">>,
    <<"(", "~">>,
    <<"*", "5">>,
    <<"(", ")">>,
    <<"4", "<", "2">>,
    <<"4", "$", "2">>,
    <<" ", "\t">>,
    <<"6", "\t", "|", " ", "1">> }

Blank(e) == \A i \in 1..Len(e) : e[i] \in Whitespace

(***************************************************************************)
(* Parser.parse, one step per iteration of the loops of Lexer.lex and      *)
(* Parser._parse_expr                                                      *)
(***************************************************************************)

\* An exception leaves Parser.parse.  start_repl catches ParserError and goes
\* on (lines 532-533); any other class ends the process.
Raise(class, e, msg) ==
    /\ pc' = "idle"
    /\ raised' = class
    /\ errExpr' = e
    /\ errMsg' = msg
    /\ running' = (running /\ class = "ParserError")
    /\ expr' = None /\ pos' = 0 /\ tree' = <<>> /\ stack' = <<>>

\* Parser.parse is entered with text e: Lexer.lex resets the lexer, lines
\* 103-105.
EnterParse(e) ==
    /\ lexExpr' = e
    /\ lexIndex' = 0
    /\ lexTokens' = <<>>
    /\ pc' = "lex"
    /\ raised' = "none" /\ errExpr' = None /\ errMsg' = None
    /\ UNCHANGED <<loopVars, parserVars, running, fmtVars>>

\* start_repl, lines 521-527: read a line; skip it when blank, else parse it.
ReplInput ==
    /\ pc = "idle" /\ running
    /\ \E e \in Exprs :
          IF Blank(e) THEN UNCHANGED vars ELSE EnterParse(e)

\* start_repl, lines 534-536: Ctrl+C at the prompt ends the loop.
ReplInterrupt ==
    /\ pc = "idle" /\ running
    /\ running' = FALSE
    /\ UNCHANGED <<lexVars, loopVars, parserVars, pc, raised, errExpr, errMsg,
                   fmtVars>>

AtChar(handler) ==
    /\ pc = "lex"
    /\ lexIndex < Len(lexExpr)
    /\ Actions(Current(lexExpr, lexIndex)) = handler

\* The handler returned out (lines 115-117), or raised its ParserError with
\* message msg.
LexApply(out, msg) ==
    IF out.exc # "none"
    THEN /\ Raise(out.exc, Str(lexExpr), msg)
         /\ UNCHANGED <<lexVars, parserVars, fmtVars>>
    ELSE /\ lexIndex' = out.index
         /\ lexTokens' = Append(lexTokens, out.tok)
         /\ UNCHANGED <<lexExpr, loopVars, parserVars, pc, raised, errExpr,
                        errMsg, running, fmtVars>>

LexInt ==
    /\ AtChar("_lex_int")
    /\ LexApply(LexIntOut(lexExpr, lexIndex), "Encountered invalid token")

LexShifters ==
    /\ AtChar("_lex_shifters")
    /\ LexApply(LexShiftersOut(lexExpr, lexIndex), "Expected")

LexOperators ==
    /\ AtChar("_lex_operators")
    /\ LexApply(LexOperatorsOut(lexExpr, lexIndex), "Encountered invalid token")

\* Whitespace: _advance returns None, so no token is appended.
Advance ==
    /\ AtChar("_advance")
    /\ lexIndex' = lexIndex + 1
    /\ UNCHANGED <<lexExpr, lexTokens, loopVars, parserVars, pc, raised,
                   errExpr, errMsg, running, fmtVars>>

\* Lines 108-113: no handler for the character.
LexInvalid ==
    /\ AtChar("KeyError")
    /\ Raise("ParserError", Str(lexExpr), "Encountered invalid token")
    /\ UNCHANGED <<lexVars, parserVars, fmtVars>>

\* Lexer.lex returns (line 119) and _parse_expr is entered (lines 396,
\* 402-403) with the text as expr.
LexReturn ==
    /\ pc = "lex"
    /\ lexIndex >= Len(lexExpr)
    /\ pc' = "parse"
    /\ expr' = Str(lexExpr)
    /\ pos' = 1
    /\ tree' = <<>>
    /\ stack' = <<>>
    /\ UNCHANGED <<lexVars, parserVars, raised, errExpr, errMsg, running,
                   fmtVars>>

AtToken ==
    /\ pc = "parse"
    /\ pos <= Len(lexTokens)

Tok == lexTokens[pos]

StayInLoop ==
    /\ pos' = pos + 1
    /\ UNCHANGED <<lexVars, parserVars, pc, raised, errExpr, errMsg, running,
                   fmtVars>>

\* Lines 406-409.
TokInteger ==
    /\ AtToken
    /\ Tok.type = "Integer"
    /\ expr' = NumericExpression(Tok)
    /\ tree' = Append(tree, NumericExpression(Tok))
    /\ stack' = stack
    /\ StayInLoop

\* Lines 410-411.
TokLeftParen ==
    /\ AtToken
    /\ Tok.type = "LeftParen"
    /\ stack' = Append(stack, Tok)
    /\ UNCHANGED <<expr, tree>>
    /\ StayInLoop

\* Lines 412-425.
TokRightParen ==
    /\ AtToken
    /\ Tok.type = "RightParen"
    /\ LET r == CloseParen(tree, stack)
       IN IF r.exc # "none"
          THEN /\ Raise(r.exc, None, None)
               /\ UNCHANGED <<lexVars, parserVars, fmtVars>>
          ELSE IF ~r.found
          THEN /\ Raise("ParserError", expr, "Mismatched parentheses")
               /\ UNCHANGED <<lexVars, parserVars, fmtVars>>
          ELSE /\ tree' = r.tree
               /\ stack' = r.stack
               /\ expr' = expr
               /\ StayInLoop

\* The body of the try of lines 428-432.
PushOperator(tr, stk, tok) ==
    IF Len(stk) = 0
    THEN [exc |-> "none", tree |-> tr, stack |-> Append(stk, tok)]
    ELSE LET p == ShouldPopOp(stk, tok)
         IN IF p.exc # "none" THEN [exc |-> p.exc, tree |-> tr, stack |-> stk]
            ELSE IF ~p.pop
            THEN [exc |-> "none", tree |-> tr, stack |-> Append(stk, tok)]
            ELSE LET r == ReduceExpr(tr, stk[Len(stk)])
                 IN IF r.exc # "none"
                    THEN [exc |-> r.exc, tree |-> tr, stack |-> Pop(stk)]
                    ELSE [exc |-> "none", tree |-> r.tree,
                          stack |-> Append(Pop(stk), tok)]

\* Lines 426-434: any other token.
TokOperator ==
    /\ AtToken
    /\ Tok.type \notin {"Integer", "LeftParen", "RightParen"}
    /\ LET r == PushOperator(tree, stack, Tok)
       IN IF r.exc = "KeyError"
          THEN /\ Raise("ParserError", expr, "Invalid operator")
               /\ UNCHANGED <<lexVars, parserVars, fmtVars>>
          ELSE IF r.exc # "none"
          THEN /\ Raise(r.exc, None, None)
               /\ UNCHANGED <<lexVars, parserVars, fmtVars>>
          ELSE /\ tree' = r.tree
               /\ stack' = r.stack
               /\ expr' = expr
               /\ StayInLoop

\* The call returns: the locals of _parse_expr are gone.
Return ==
    /\ pc' = "idle"
    /\ raised' = "none"
    /\ expr' = None /\ pos' = 0 /\ tree' = <<>> /\ stack' = <<>>
    /\ UNCHANGED <<lexVars, errExpr, errMsg, running, fmtVars>>

\* The tokens are used up: lines 436-447 of _parse_expr, then lines 396-397
\* of Parser.parse.
ParseFinish ==
    /\ pc = "parse"
    /\ pos > Len(lexTokens)
    /\ LET d == Drain(tree, stack)
       IN IF d.exc = "ParserError"
          THEN /\ Raise("ParserError", expr, "Mismatched parentheses")
               /\ UNCHANGED <<lexVars, parserVars, fmtVars>>
          ELSE IF d.exc # "none"
          THEN /\ Raise(d.exc, None, None)
               /\ UNCHANGED <<lexVars, parserVars, fmtVars>>
          ELSE IF Len(d.tree) # 1
          THEN /\ Raise("ParserError", expr,
                        "An internal parser error has occurred.")
               /\ UNCHANGED <<lexVars, parserVars, fmtVars>>
          ELSE LET t == d.tree[1]
                   r == IntOf(t)
               IN /\ parserTree' = t
                  /\ IF r.exc # "none"
                     THEN /\ Raise(r.exc, None, None)
                          /\ UNCHANGED <<lexVars, parserResult, fmtVars>>
                     ELSE /\ parserResult' = PyInt(r.val)
                          /\ Return

(***************************************************************************)
(* BinaryFormatter                                                         *)
(*                                                                         *)
(* Python integers are unbounded, and math.log first converts its argument *)
(* to a 64-bit float.  An integer handed to the formatter is therefore a   *)
(* sign and a magnitude in binary: a sequence of bits, most significant    *)
(* first, with no leading zero (0 is the empty sequence).                  *)
(***************************************************************************)

Num(neg, bits) == [neg |-> neg, bits |-> bits]

IsZero(num) == num.bits = <<>>

Zeros(n) == [i \in 1..n |-> 0]

Ones(n) == [i \in 1..n |-> 1]

IsPowerOfTwo(bits) ==
    /\ Len(bits) >= 1
    /\ \A i \in 2..Len(bits) : bits[i] = 0

\* bits + 1.
RECURSIVE Increment(_)
Increment(bits) ==
    IF bits = <<>> THEN <<1>>
    ELSE IF bits[Len(bits)] = 0 THEN Append(Pop(bits), 1)
    ELSE Append(Increment(Pop(bits)), 0)

\* Bits of a float's significand.
MantissaBits == 53

\* The conversion of an int to a float: the nearest float, ties to even.
ToFloat(bits) ==
    IF Len(bits) <= MantissaBits THEN bits
    ELSE LET kept == SubSeq(bits, 1, MantissaBits)
             rest == SubSeq(bits, MantissaBits + 1, Len(bits))
             half == rest[1] = 1 /\ \A i \in 2..Len(rest) : rest[i] = 0
             above == rest[1] = 1 /\ ~half
             up == above \/ (half /\ kept[MantissaBits] = 1)
         IN IF up THEN Increment(kept) \o Zeros(Len(rest))
            ELSE kept \o Zeros(Len(rest))

\* math.log(x, 2) of a float x >= 1 given by its bits, as far as line 218-219
\* read it: the integer part, and whether the value is a whole number.  The
\* quotient log(x) / log(2) is taken as exact for the float x.
Log2(x) ==
    IF IsPowerOfTwo(x) THEN [int |-> Len(x) - 1, whole |-> TRUE]
    ELSE [int |-> Len(x) - 1, whole |-> FALSE]

\* math.ceil(ln).
Ceil(ln) == IF ln.whole THEN ln.int ELSE ln.int + 1

\* BinaryFormatter._binary_digits.
BinaryDigits(num) ==
    LET ln == IF ~IsZero(num) THEN Log2(ToFloat(num.bits))
              ELSE [int |-> 1, whole |-> TRUE]
        ndigits == IF ln.whole THEN Ceil(ln) + 1 ELSE Ceil(ln)
        should_pad == (ndigits % 8) # 0
    IN IF should_pad THEN ((ndigits \div 8) * 8) + 8 ELSE ndigits

\* max() of a non-empty list of ints.
RECURSIVE Max(_)
Max(s) ==
    IF Len(s) = 1 THEN s[1]
    ELSE LET m == Max(Tail(s)) IN IF s[1] >= m THEN s[1] ELSE m

\* Longest magnitude, in bits, handed to the formatter under SpecFmt.
MaxBits == 58

\* Every magnitude up to this many bits is handed to the formatter.
MaxSmallBits == 5

\* 2^n - 1, 2^(n-1) and 2^(n-1) + 1 as bits, for n >= 2.
NearPowers(n) ==
    {Ones(n), <<1>> \o Zeros(n - 1), <<1>> \o Zeros(n - 2) \o <<1>>}

Magnitudes ==
    {<<>>}
    \cup UNION {{<<1>> \o b : b \in [1..n -> {0, 1}]} : n \in 0..(MaxSmallBits - 1)}
    \cup UNION {NearPowers(n) : n \in 2..MaxBits}

FmtNums == {Num(neg, b) : neg \in BOOLEAN, b \in Magnitudes} \ {Num(TRUE, <<>>)}

\* The second value of a two-value list: 0, 1, -1, 255, 256, -256.
FmtSeconds ==
    {Num(FALSE, <<>>), Num(FALSE, <<1>>), Num(TRUE, <<1>>), Num(FALSE, Ones(8)),
     Num(FALSE, <<1>> \o Zeros(8)), Num(TRUE, <<1>> \o Zeros(8))}

FmtVals == {<<v>> : v \in FmtNums} \cup {<<v, w>> : v \in FmtNums, w \in FmtSeconds}

\* BinaryFormatter.__init__.
FormatterInit ==
    /\ digits = None
    /\ vals # <<>>
    /\ digits' = PyInt(Max([i \in 1..Len(vals) |-> BinaryDigits(vals[i])]))
    /\ negative' = (\E i \in 1..Len(vals) : vals[i].neg)
    /\ UNCHANGED <<vals, lexVars, loopVars, parserVars, pc, raised, errExpr,
                   errMsg, running>>

(***************************************************************************)
(* Specifications                                                          *)
(***************************************************************************)

\* A constructed Parser (lines 373-378) with its Lexer (lines 69-72).
Constructed ==
    /\ lexExpr = <<>>
    /\ lexIndex = 0
    /\ lexTokens = <<>>
    /\ expr = None /\ pos = 0 /\ tree = <<>> /\ stack = <<>>
    /\ parserTree = None
    /\ parserResult = None
    /\ raised = "none" /\ errExpr = None /\ errMsg = None
    /\ running = TRUE

NoFormatter == vals = <<>> /\ digits = None /\ negative = FALSE

\* start_repl: the parser is constructed and the loop waits for a line.
Init == Constructed /\ pc = "idle" /\ NoFormatter

LexStep == LexInt \/ LexShifters \/ LexOperators \/ Advance \/ LexInvalid
              \/ LexReturn

ParseStep == TokInteger \/ TokLeftParen \/ TokRightParen \/ TokOperator
                \/ ParseFinish

Next == ReplInput \/ ReplInterrupt \/ LexStep \/ ParseStep

Spec == Init /\ [][Next]_vars

\* Parser.parse applied once to each text of LexExprs on a new Parser: the
\* state is that of line 107, the lexer just reset.
InitLex ==
    /\ lexExpr \in LexExprs
    /\ lexIndex = 0
    /\ lexTokens = <<>>
    /\ expr = None /\ pos = 0 /\ tree = <<>> /\ stack = <<>>
    /\ parserTree = None
    /\ parserResult = None
    /\ raised = "none" /\ errExpr = None /\ errMsg = None
    /\ running = TRUE
    /\ pc = "lex"
    /\ NoFormatter

NextLex == LexStep \/ ParseStep

SpecLex == InitLex /\ [][NextLex]_vars

\* BinaryFormatter(vals) for each list of FmtVals.
InitFmt ==
    /\ Constructed /\ pc = "idle"
    /\ vals \in FmtVals
    /\ digits = None
    /\ negative = FALSE

NextFmt == FormatterInit

SpecFmt == InitFmt /\ [][NextFmt]_vars

(***************************************************************************)
(* Properties                                                              *)
(***************************************************************************)

\* The last parse call got through Lexer.lex.
LexSucceeded == pc = "parse" \/ (pc = "idle" /\ lexIndex = Len(lexExpr))

\* The last parse call has ended and its text was lexed whole.
CallEndedAfterLex == pc = "idle" /\ lexIndex = Len(lexExpr)

\* The precedence table as the specification words it, binary levels only,
\* tightest first.
ClaimLevels == <<{"Times", "Divide", "Modulo"}, {"LeftShift", "RightShift"},
                 {"Plus", "Minus"}, {"BitwiseAnd"}, {"BitwiseXOr"},
                 {"BitwiseOr"}>>

ChainOperators == UNION {ClaimLevels[l] : l \in 1..Len(ClaimLevels)}

\* Integer literals joined by binary operators, no parentheses.
IsChain(toks) ==
    /\ Len(toks) >= 3
    /\ Len(toks) % 2 = 1
    /\ \A i \in 1..Len(toks) :
          IF i % 2 = 1 THEN toks[i].type = "Integer"
          ELSE toks[i].type \in ChainOperators

Without(s, i) == SubSeq(s, 1, i - 1) \o SubSeq(s, i + 1, Len(s))

\* The value of operands vs joined by operators ops, grouping level by level
\* from level l on, leftmost operator of a level first.
RECURSIVE GroupedValue(_, _, _)
GroupedValue(vs, ops, l) ==
    IF ops = <<>> THEN Returned(vs[1])
    ELSE LET here == {i \in 1..Len(ops) : ops[i].type \in ClaimLevels[l]}
         IN IF here = {} THEN GroupedValue(vs, ops, l + 1)
            ELSE LET i == CHOOSE j \in here : \A k \in here : j <= k
                     r == BinaryVal(ops[i].value, vs[i], vs[i + 1])
                 IN IF r.exc # "none" \/ r.float THEN r
                    ELSE GroupedValue([Without(vs, i + 1) EXCEPT ![i] = r.val],
                                      Without(ops, i), l)

ChainValue(toks) ==
    GroupedValue([i \in 1..((Len(toks) + 1) \div 2) |-> TokenInt(toks[2 * i - 1])],
                 [i \in 1..((Len(toks) - 1) \div 2) |-> toks[2 * i]], 1)

\* C1: a chain of integer literals joined by binary operators evaluates to
\* the value of its grouping by the precedence table, left to right within a
\* level, whenever that grouping has an integer value.
C1_PrecedenceGrouping ==
    (CallEndedAfterLex /\ IsChain(lexTokens))
        => LET ref == ChainValue(lexTokens)
           IN (ref.exc = "none" /\ ~ref.float)
                 => (raised = "none" /\ parserResult = PyInt(ref.val))

\* Number of '(' of toks[1..n] not yet closed, or -1 once a ')' had none to
\* close.
RECURSIVE ParenDepth(_, _)
ParenDepth(toks, n) ==
    IF n = 0 THEN 0
    ELSE LET d == ParenDepth(toks, n - 1)
         IN IF d < 0 THEN d
            ELSE IF toks[n].type = "LeftParen" THEN d + 1
            ELSE IF toks[n].type = "RightParen" THEN d - 1
            ELSE d

Unbalanced(toks) == ParenDepth(toks, Len(toks)) # 0

\* C2: a text that lexes and whose parentheses are unbalanced ends the parse
\* call with a ParserError, never another exception and never a result.
C2_UnbalancedIsParserError ==
    (CallEndedAfterLex /\ Unbalanced(lexTokens)) => raised = "ParserError"

\* C3: a parse call that fails leaves Parser._tree and Parser._result as they
\* were, and the result held is the value of the tree held.
C3_NoPartialResult ==
    [][/\ (pc # "idle" /\ pc' = "idle" /\ raised' # "none")
            => (parserTree' = parserTree /\ parserResult' = parserResult)
       /\ (pc' = "idle" /\ parserTree' # None)
            => (parserResult' # None
                  /\ IntOf(parserTree') = Returned(parserResult'.val))]_vars

\* Source index of the first character of each token of toks, the tokens
\* lexed from e from index i on: whitespace is skipped, then a token covers
\* as many characters as its lexeme has.
RECURSIVE SkipWhitespace(_, _)
SkipWhitespace(e, i) ==
    IF i < Len(e) /\ Current(e, i) \in Whitespace THEN SkipWhitespace(e, i + 1)
    ELSE i

RECURSIVE TokenStarts(_, _, _)
TokenStarts(e, i, toks) ==
    IF toks = <<>> THEN <<>>
    ELSE LET j == SkipWhitespace(e, i)
         IN <<j>> \o TokenStarts(e, j + Len(toks[1].value), Tail(toks))

IsDigitRun(s) == s # <<>> /\ \A i \in 1..Len(s) : s[i] \in INTEGERS

\* The texts "a-b" for digit runs a and b.
IsDigitsDashDigits(e) ==
    \E d \in 2..(Len(e) - 1) :
        /\ e[d] = "-"
        /\ IsDigitRun(SubSeq(e, 1, d - 1))
        /\ IsDigitRun(SubSeq(e, d + 1, Len(e)))

\* C4: a '-' is lexed as the Minus operator exactly when no digit follows it,
\* and otherwise opens one Integer token with the signed lexeme; so "a-b"
\* lexes to the two Integer tokens a and -b and the parse call ends with the
\* wrong-operand-count ParserError.
C4_MinusAbsorbedBeforeDigit ==
    LET starts == TokenStarts(lexExpr, 0, lexTokens)
    IN /\ \A n \in 1..Len(lexTokens) :
            LET at == starts[n]
                dash == at < Len(lexExpr) /\ Current(lexExpr, at) = "-"
                digit == NextChar(lexExpr, at) \in INTEGERS
            IN /\ lexTokens[n].type = "Minus" <=> (dash /\ ~digit)
               /\ (dash /\ digit)
                    => /\ lexTokens[n].type = "Integer"
                       /\ lexTokens[n].value =
                            SubSeq(lexExpr, at + 1, SkipDigits(lexExpr, at + 1))
       /\ \A i \in 0..(lexIndex - 1) :
            Current(lexExpr, i) = "-" => \E n \in 1..Len(lexTokens) : starts[n] = i
       /\ (pc = "idle" /\ IsDigitsDashDigits(lexExpr))
            => LET d == CHOOSE d \in 1..Len(lexExpr) : lexExpr[d] = "-"
               IN /\ lexTokens = <<Token(SubSeq(lexExpr, 1, d - 1), "Integer"),
                                   Token(SubSeq(lexExpr, d, Len(lexExpr)), "Integer")>>
                  /\ raised = "ParserError"
                  /\ errMsg = "An internal parser error has occurred."
                  /\ parserTree = None /\ parserResult = None

\* "1-2" was parsed and the call ended with the ParserError.
C4_Witness ==
    /\ pc = "idle"
    /\ lexExpr = <<"1", "-", "2">>
    /\ lexTokens = <<Token(<<"1">>, "Integer"), Token(<<"-", "2">>, "Integer")>>
    /\ raised = "ParserError"

RECURSIVE Concat(_)
Concat(toks) == IF toks = <<>> THEN <<>> ELSE toks[1].value \o Concat(Tail(toks))

StripWhitespace(e) == SelectSeq(e, LAMBDA c : c \notin Whitespace)

\* C5: when Lexer.lex succeeds, the lexemes of its tokens, concatenated in
\* order, are the text without its spaces and tabs.
C5_LexemesRebuildText ==
    LexSucceeded
        => /\ Concat(lexTokens) = StripWhitespace(lexExpr)
           /\ \A n \in 1..Len(lexTokens) : lexTokens[n].value # <<>>

\* A text with whitespace, a signed literal and a two-character operator was
\* lexed.
C5_Witness ==
    /\ pc = "parse"
    /\ \E i \in 1..Len(lexExpr) : lexExpr[i] \in Whitespace
    /\ \E n \in 1..Len(lexTokens) :
          lexTokens[n].type = "Integer" /\ lexTokens[n].value[1] = "-"
    /\ Len(lexTokens) >= 2

ParseStageMessages == {"Mismatched parentheses", "Invalid operator",
                       "An internal parser error has occurred."}

\* C6: a ParserError raised by _parse_expr carries the text given to
\* Parser.parse in its expr field.
C6_ParserErrorCarriesText ==
    (pc = "idle" /\ raised = "ParserError" /\ errMsg \in ParseStageMessages)
        => errExpr = Str(lexExpr)

\* The exact bit count the specification gives a value: 1 for 0, otherwise
\* ceil(log2 |v|), plus 1 when |v| is a power of two.  For |v| of L bits
\* that is L when |v| is no power of two, and (L - 1) + 1 when it is.
NaturalBits(num) ==
    IF IsZero(num) THEN 1 ELSE Len(num.bits)

\* The smallest multiple of 8 that is >= n, for n >= 1.
RoundUpTo8(n) == ((n + 7) \div 8) * 8

ClaimedWidth(num) == RoundUpTo8(NaturalBits(num))

\* The values 0, 1, 2, 7, 8, 255 and 256.
Zero == Num(FALSE, <<>>)
One == Num(FALSE, <<1>>)
Two == Num(FALSE, <<1, 0>>)
Seven == Num(FALSE, <<1, 1, 1>>)
Eight == Num(FALSE, <<1, 0, 0, 0>>)
N255 == Num(FALSE, Ones(8))
N256 == Num(FALSE, <<1>> \o Zeros(8))

\* C7: the width of a value is the smallest multiple of 8 that holds its
\* natural bit count, the width of a list is the largest width of its
\* members; it is a positive multiple of 8, at least the bit length, 8 for
\* 0, 1, 2, 7, 8, 255 and 16 for 256.
C7_WidthIsSmallestMultipleOf8 ==
    digits # None
        => /\ digits.val = Max([i \in 1..Len(vals) |-> ClaimedWidth(vals[i])])
           /\ digits.val > 0 /\ digits.val % 8 = 0
           /\ \A i \in 1..Len(vals) : digits.val >= Len(vals[i].bits)
           /\ vals \in {<<Zero>>, <<One>>, <<Two>>, <<Seven>>, <<Eight>>, <<N255>>}
                => digits.val = 8
           /\ vals = <<N256>> => digits.val = 16

ShiftOps == {<<"<", "<">>, <<">", ">">>}

\* Evaluating e evaluates a shift node whose right operand is negative.
RECURSIVE ShiftsByNegative(_)
ShiftsByNegative(e) ==
    CASE e.kind = "Numeric" -> FALSE
      [] e.kind = "Unary" -> ShiftsByNegative(e.first)
      [] e.kind = "Binary" ->
           \/ ShiftsByNegative(e.first)
           \/ /\ IntOf(e.first).exc = "none"
              /\ \/ ShiftsByNegative(e.second)
                 \/ /\ e.op \in ShiftOps
                    /\ IntOf(e.second).exc = "none"
                    /\ IntOf(e.second).val < 0

\* C8: evaluating a shift by a negative amount ends the parse call with the
\* exception class the read loop catches, so the loop goes on.
C8_NegativeShiftIsReported ==
    (pc = "idle" /\ parserTree # None /\ ShiftsByNegative(parserTree))
        => (raised = "ParserError" /\ running)

\* Pop-before-push as the specification words it, for the operator top on the
\* stack and the arriving operator new.
PopBeforePush(top, new) ==
    LET t == OpPrecedence(top)
        n == OpPrecedence(new)
    IN \/ t.assoc = "left" /\ n.prec >= t.prec
       \/ t.assoc = "right" /\ n.prec > t.prec

\* C9: right after an operator token is pushed, the entry beneath it on the
\* operator stack is '(' or an operator that pop-before-push does not ask to
\* pop.
C9_PushAfterPoppingAll ==
    [][(/\ pc = "parse" /\ pc' = "parse"
        /\ pos <= Len(lexTokens)
        /\ lexTokens[pos].type \notin {"Integer", "LeftParen", "RightParen"}
        /\ Len(stack') >= 2)
          => LET beneath == stack'[Len(stack') - 1]
             IN \/ beneath.type = "LeftParen"
                \/ ~PopBeforePush(beneath, stack'[Len(stack')])]_vars

\* Every node of e carries an operator its class evaluates.
RECURSIVE WellFormed(_)
WellFormed(e) ==
    CASE e.kind = "Numeric" -> TRUE
      [] e.kind = "Unary" -> e.op \in UnaryOps /\ WellFormed(e.first)
      [] e.kind = "Binary" ->
           e.op \in BinaryOps /\ WellFormed(e.first) /\ WellFormed(e.second)

\* C10: every node the parser builds or stores is well formed: a Unary node
\* carries +, - or ~, a Binary node one of the ten binary operators.
C10_NodesWellFormed ==
    /\ \A i \in 1..Len(tree) : WellFormed(tree[i])
    /\ parserTree # None => WellFormed(parserTree)

=============================================================================
